---- MODULE Spec2Model ----
(***************************************************************************)
(* Verification model of the ektubeshi-cdn worker: the key-value layer     *)
(* (kv.ts: extractMetadata, storeMarkdown, the index updates, the lookups, *)
(* search and recent) and the request handlers of index.ts that call it.   *)
(*                                                                         *)
(* Strings are TLA+ strings; TLC evaluates Len, Head, Tail, SubSeq and \o  *)
(* on them, so split, trim, toLowerCase, includes and the front-matter     *)
(* regular expression are computed character by character as the code      *)
(* computes them.  A JavaScript value that may be null is an option: <<>>  *)
(* for null/undefined, <<v>> for the value v.  A JSON text is represented  *)
(* by its parse tree (JSONstringify builds it, JSONparse reads it back).   *)
(***************************************************************************)
EXTENDS Integers, Sequences, FiniteSets, TLC

VARIABLES
    kv,        \* env.EKTUBESHI_CDN_KV: a function from the present keys to their values
    last,      \* the body of the sync request handled last (null before the first)
    resp,      \* the Response to it: [status, message]
    repeated,  \* whether the request handled last repeated the one before it
    nreq,      \* number of requests handled so far (bounded by MaxRequests)
    log,       \* history: the keys of the published syncs answered 200, in order
    writers,   \* interleaved specification: each sync request's position and local variables
    overlap,   \* interleaved specification: two writes of one category ran at the same time
    reader     \* interleaved specification: a getPost call's position and local variables

vars == <<kv, last, resp, repeated, nreq, log, writers, overlap, reader>>

(***************************************************************************)
(* JavaScript strings                                                      *)
(***************************************************************************)
Null == <<>>
Some(v) == <<v>>
IsNull(o) == o = <<>>
Val(o) == o[1]

CharAt(s, i) == SubSeq(s, i, i)

\* the lower-case letter of each upper-case ASCII letter
LowerCaseOf ==
    "A" :> "a" @@ "B" :> "b" @@ "C" :> "c" @@ "D" :> "d" @@ "E" :> "e" @@ "F" :> "f" @@ "G" :> "g" @@
    "H" :> "h" @@ "I" :> "i" @@ "J" :> "j" @@ "K" :> "k" @@ "L" :> "l" @@ "M" :> "m" @@ "N" :> "n" @@
    "O" :> "o" @@ "P" :> "p" @@ "Q" :> "q" @@ "R" :> "r" @@ "S" :> "s" @@ "T" :> "t" @@ "U" :> "u" @@
    "V" :> "v" @@ "W" :> "w" @@ "X" :> "x" @@ "Y" :> "y" @@ "Z" :> "z"

\* String.prototype.toLowerCase on one character
LowerChar(c) == IF c \in DOMAIN LowerCaseOf THEN LowerCaseOf[c] ELSE c

\* String.prototype.toLowerCase, character by character (the string is halved to
\* keep the recursion shallow)
RECURSIVE ToLowerCase(_)
ToLowerCase(s) ==
    IF Len(s) = 0 THEN ""
    ELSE IF Len(s) = 1 THEN LowerChar(s)
    ELSE ToLowerCase(SubSeq(s, 1, Len(s) \div 2)) \o ToLowerCase(SubSeq(s, Len(s) \div 2 + 1, Len(s)))

IsSpace(c) == c \in {" ", "\t", "\n", "\r"}

RECURSIVE TrimStart(_)
TrimStart(s) == IF s # "" /\ IsSpace(Head(s)) THEN TrimStart(Tail(s)) ELSE s

RECURSIVE TrimEnd(_)
TrimEnd(s) ==
    IF s # "" /\ IsSpace(CharAt(s, Len(s))) THEN TrimEnd(SubSeq(s, 1, Len(s) - 1)) ELSE s

\* String.prototype.trim
Trim(s) == TrimEnd(TrimStart(s))

\* String.prototype.includes
Includes(s, sub) ==
    \E i \in 0..(Len(s) - Len(sub)) : SubSeq(s, i + 1, i + Len(sub)) = sub

\* String.prototype.startsWith
StartsWith(s, p) == Len(p) <= Len(s) /\ SubSeq(s, 1, Len(p)) = p

\* String.prototype.split with a one-character separator: the pieces between the
\* positions of the separator, so "" splits to <<"">> and "a:" to <<"a", "">>
SepPositions(s, sep) == {i \in 1..Len(s) : CharAt(s, i) = sep}

RECURSIVE Split(_, _)
Split(s, sep) ==
    LET pos == SepPositions(s, sep)
    IN  IF pos = {} THEN <<s>>
        ELSE LET first == CHOOSE p \in pos : \A q \in pos : p <= q
             IN  <<SubSeq(s, 1, first - 1)>> \o Split(SubSeq(s, first + 1, Len(s)), sep)

\* Array.prototype.join
RECURSIVE Join(_, _)
Join(parts, sep) ==
    IF Len(parts) = 0 THEN ""
    ELSE IF Len(parts) = 1 THEN parts[1]
    ELSE parts[1] \o sep \o Join(Tail(parts), sep)

\* Array.prototype.includes
ArrIncludes(arr, x) == \E i \in 1..Len(arr) : arr[i] = x

(***************************************************************************)
(* JavaScript objects: a function from the property names that are set     *)
(***************************************************************************)
EmptyObj == [x \in {} |-> ""]
SetField(m, f, v) == [x \in DOMAIN m \cup {f} |-> IF x = f THEN v ELSE m[x]]
HasField(m, f) == f \in DOMAIN m
\* !m.f for a string property: undefined or the empty string
Falsy(m, f) == ~HasField(m, f) \/ m[f] = ""

(***************************************************************************)
(* extractMetadata                                                         *)
(***************************************************************************)
\* content.match(/^---\n([\s\S]*?)\n---/): the captured group, or null
FrontmatterMatch(content) ==
    IF ~StartsWith(content, "---\n") THEN Null
    ELSE LET ends == {j \in 5..(Len(content) - 3) : SubSeq(content, j, j + 3) = "\n---"}
         IN  IF ends = {} THEN Null
             ELSE LET j == CHOOSE e \in ends : \A o \in ends : e <= o
                  IN  Some(SubSeq(content, 5, j - 1))

\* metadata.tags = value.split(',').map((tag) => tag.trim())
ParseTags(value) ==
    LET parts == Split(value, ",") IN [i \in 1..Len(parts) |-> Trim(parts[i])]

\* one iteration of the loop over the front-matter lines
ParseLine(metadata, line) ==
    LET parts == Split(line, ":")
        key == parts[1]
        valueParts == Tail(parts)
    IN  IF key # "" /\ Len(valueParts) > 0
        THEN LET value == Trim(Join(valueParts, ":"))
                 k == ToLowerCase(Trim(key))
             IN  IF k \in {"title", "date", "author", "category", "excerpt", "language"}
                 THEN SetField(metadata, k, value)
                 ELSE IF k = "status" THEN SetField(metadata, k, ToLowerCase(value))
                 ELSE IF k = "tags" THEN SetField(metadata, k, ParseTags(value))
                 ELSE metadata
        ELSE metadata

RECURSIVE ParseLines(_, _)
ParseLines(metadata, lines) ==
    IF Len(lines) = 0 THEN metadata
    ELSE ParseLines(ParseLine(metadata, Head(lines)), Tail(lines))

RequiredFields == {"title", "date", "author", "category"}

\* the validation of the required fields
MissingRequired(metadata) == \E f \in RequiredFields : Falsy(metadata, f)

ExtractMetadata(content) ==
    LET frontmatterMatch == FrontmatterMatch(content)
    IN  IF IsNull(frontmatterMatch) THEN Null
        ELSE LET metadata == ParseLines(EmptyObj, Split(Val(frontmatterMatch), "\n"))
             IN  IF MissingRequired(metadata) THEN Null ELSE Some(metadata)

(***************************************************************************)
(* The documents of the model, and extractMetadata tabulated over them     *)
(***************************************************************************)
DocA == "---\ntitle: API Test Post\ndate: 2025-03-01\nauthor: Dib\nstatus: published\ncategory: tech\ntags: api, test\n---\n# One"
DocB == "---\nTitle: Second\ndate: 2025-01-01\nauthor: Dib\nstatus: Draft\ncategory: tech\n---\nTwo api"
DocNoFrontmatter == "# Only a body\ntitle: None"
DocNoTitle == "---\ndate: 2025-02-01\nauthor: Dib\ncategory: tech\n---\nNo title"
DocEmptyAuthor == "---\ntitle: T\ndate: 2025-02-01\nauthor:  \ncategory: tech\n---\nNo author"
DocNoDate == "---\ntitle: T\nauthor: Dib\ncategory: tech\ndate\n---\nNo date"
DocNoCategory == "---\ntitle: T\ndate: 2025-02-01\nauthor: Dib\n---\ncategory: after the block"

\* documents with the required fields and a status line of their own kind
DocArchived == "---\ntitle: Second\ndate: 2025-01-01\nauthor: Dib\nstatus: Archived\ncategory: tech\n---\nTwo api"
DocUpperCase == "---\ntitle: Second\ndate: 2025-01-01\nauthor: Dib\nstatus: PUBLISHED\ncategory: tech\n---\nTwo api"
DocNoStatus == "---\ntitle: Second\ndate: 2025-01-01\nauthor: Dib\ncategory: tech\n---\nTwo api"

ValidContents == {DocA, DocB}
InvalidContents == {DocNoFrontmatter, DocNoTitle, DocNoDate, DocEmptyAuthor, DocNoCategory}
LabelContents == {DocArchived, DocUpperCase, DocNoStatus}
Contents == ValidContents \cup InvalidContents

\* toLowerCase() of the contents, titles, tags and queries of the model, computed once
Texts == Contents \cup {"API Test Post", "Second", "Explicit", "api", "test", "API",
                        "SECOND", "explicit", "zzz-no-match"}
LowerCaseTable == {<<c, ToLowerCase(c)>> : c \in Texts}
LowerCased(s) ==
    IF s \in Texts THEN (CHOOSE p \in LowerCaseTable : p[1] = s)[2] ELSE ToLowerCase(s)

\* extractMetadata(content) for each content of the model, computed once
ExtractedTable == {<<c, ExtractMetadata(c)>> : c \in Contents}
Extracted(content) ==
    IF content \in Contents THEN (CHOOSE p \in ExtractedTable : p[1] = content)[2]
    ELSE ExtractMetadata(content)

(***************************************************************************)
(* JSON: a text is represented by its parse tree                           *)
(***************************************************************************)
FieldOrder == <<"title", "date", "author", "status", "category", "excerpt", "tags", "language">>

\* JSON.stringify of a metadata object: undefined properties are left out
JSONstringify(obj) ==
    LET names == SelectSeq(FieldOrder, LAMBDA f : f \in DOMAIN obj)
    IN  [json |-> "object", members |-> [i \in 1..Len(names) |-> <<names[i], obj[names[i]]>>]]

\* JSON.stringify of an array of strings
JSONstringifyArray(arr) == [json |-> "array", items |-> arr]

JSONparse(text) ==
    IF text.json = "array" THEN text.items
    ELSE [f \in {text.members[i][1] : i \in 1..Len(text.members)} |->
             LET i == CHOOSE j \in 1..Len(text.members) : text.members[j][1] = f
             IN  text.members[i][2]]

(***************************************************************************)
(* The key-value store: get(key) -> value | null, put(key, value)          *)
(***************************************************************************)
EmptyStore == [k \in {} |-> ""]
KVGet(store, key) == IF key \in DOMAIN store THEN Some(store[key]) ELSE Null
KVPut(store, key, value) ==
    [k \in DOMAIN store \cup {key} |-> IF k = key THEN value ELSE store[k]]

\* the key space
ContentKey(status, key) == status \o ":" \o key
\* a variant that ignores the visibility
MetadataKeyPublished(status, key) == "metadata:published:" \o key
MetadataKey(status, key) == "metadata:" \o status \o ":" \o key
CatIndexKey(category) == "index:" \o category
CategoriesKey == "index:categories"

(***************************************************************************)
(* updateCategoryIndex, updateCategoriesList, storeMarkdown                *)
(***************************************************************************)
\* a variant that drops the entries read
PushAlone(arr, x) == <<x>>

\* arr.push(x)
Push(arr, x) == Append(arr, x)

\* a variant without the presence check
AppendAlways(store, indexKey, arr, x) == KVPut(store, indexKey, JSONstringifyArray(Push(arr, x)))

\* if (!arr.includes(x)) { arr.push(x); put(key, JSON.stringify(arr)) }
AppendIfAbsent(store, indexKey, arr, x) ==
    IF ~ArrIncludes(arr, x)
    THEN KVPut(store, indexKey, JSONstringifyArray(Push(arr, x)))
    ELSE store

\* raw ? JSON.parse(raw) : []
ParseOrEmpty(raw) == IF IsNull(raw) THEN <<>> ELSE JSONparse(Val(raw))

\* a variant that writes the Category Index only when there is none yet
UpdateCategoryIndexOnlyNew(store, category, slug) ==
    IF CatIndexKey(category) \in DOMAIN store THEN store
    ELSE KVPut(store, CatIndexKey(category), JSONstringifyArray(<<slug>>))

UpdateCategoryIndex(store, category, slug) ==
    LET catIndexKey == CatIndexKey(category)
        catIndex == ParseOrEmpty(KVGet(store, catIndexKey))
    IN  AppendIfAbsent(store, catIndexKey, catIndex, slug)

\* a variant that does not read the current list
UpdateCategoriesListOverwrite(store, category) ==
    KVPut(store, CategoriesKey, JSONstringifyArray(<<category>>))

UpdateCategoriesList(store, category) ==
    LET categories == ParseOrEmpty(KVGet(store, CategoriesKey))
    IN  AppendIfAbsent(store, CategoriesKey, categories, category)

\* let metadata = payload.metadata; if (!metadata) metadata = extractMetadata(content)
ResolveMetadata(payload) ==
    IF ~IsNull(payload.metadata) THEN payload.metadata ELSE Extracted(payload.content)

\* a variant that forgets the visibility
SkipsIndexIgnoringStatus(key, status) == Len(Split(key, "/")) < 3

\* the early return before the index updates
SkipsIndex(key, status) == Len(Split(key, "/")) < 3 \/ status # "published"

FullCategoryKey(key) == LET pathParts == Split(key, "/") IN pathParts[1] \o "/" \o pathParts[2]
SlugOf(key) == Split(key, "/")[3]

\* a variant that leaves the visibility out of the content key
StoreContentNoStatus(store, payload, status) == KVPut(store, payload.key, payload.content)

\* a variant that takes the slot of the content from the status label of the metadata
StoreContentByLabel(store, payload, status) ==
    LET metadata == ResolveMetadata(payload)
        label == IF ~IsNull(metadata) /\ HasField(Val(metadata), "status")
                 THEN Val(metadata).status ELSE status
    IN  KVPut(store, ContentKey(label, payload.key), payload.content)

\* the two puts of content and metadata
StoreContent(store, payload, status) ==
    KVPut(store, ContentKey(status, payload.key), payload.content)

\* a variant that on publishing clears the draft slot of the key
StoreMetadataClearingDraft(store, payload, status, metadata) ==
    LET put == KVPut(store, MetadataKey(status, payload.key), JSONstringify(metadata))
        drafts == {ContentKey("draft", payload.key), MetadataKey("draft", payload.key)}
    IN  IF status = "published" THEN [k \in DOMAIN put \ drafts |-> put[k]] ELSE put

StoreMetadata(store, payload, status, metadata) ==
    KVPut(store, MetadataKey(status, payload.key), JSONstringify(metadata))

\* a variant that puts the content before it resolves the metadata
StoreMarkdownWriteFirst(store, payload, status) ==
    LET s1 == KVPut(store, ContentKey(status, payload.key), payload.content)
        metadata == ResolveMetadata(payload)
    IN  IF IsNull(metadata) THEN [threw |-> TRUE, store |-> s1]
        ELSE LET s2 == KVPut(s1, MetadataKey(status, payload.key), JSONstringify(Val(metadata)))
             IN  IF SkipsIndex(payload.key, status) THEN [threw |-> FALSE, store |-> s2]
                 ELSE [threw |-> FALSE,
                       store |-> UpdateCategoriesList(
                                     UpdateCategoryIndex(s2, FullCategoryKey(payload.key),
                                                         SlugOf(payload.key)),
                                     FullCategoryKey(payload.key))]

\* storeMarkdown run to completion: [threw, store]
StoreMarkdown(store, payload, status) ==
    LET metadata == ResolveMetadata(payload)
    IN  IF IsNull(metadata) THEN [threw |-> TRUE, store |-> store]
        ELSE LET s1 == StoreContent(store, payload, status)
                 s2 == StoreMetadata(s1, payload, status, Val(metadata))
             IN  IF SkipsIndex(payload.key, status) THEN [threw |-> FALSE, store |-> s2]
                 ELSE LET s3 == UpdateCategoryIndex(s2, FullCategoryKey(payload.key),
                                                    SlugOf(payload.key))
                          s4 == UpdateCategoriesList(s3, FullCategoryKey(payload.key))
                      IN  [threw |-> FALSE, store |-> s4]

(***************************************************************************)
(* The lookups                                                             *)
(***************************************************************************)
GetMarkdown(store, key, status) == KVGet(store, ContentKey(status, key))

GetPostMetadata(store, key, status) ==
    LET raw == KVGet(store, MetadataKey(status, key))
    IN  IF IsNull(raw) THEN Null ELSE Some(JSONparse(Val(raw)))

GetPost(store, key, status) ==
    LET pathParts == Split(key, "/")
    IN  IF Len(pathParts) < 3 THEN Null
        ELSE LET content == GetMarkdown(store, key, status)
                 metadata == GetPostMetadata(store, key, status)
             IN  IF IsNull(content) \/ Val(content) = "" \/ IsNull(metadata) THEN Null
                 ELSE Some([slug |-> pathParts[Len(pathParts)],
                            metadata |-> Val(metadata),
                            content |-> Val(content)])

GetCategorySlugs(store, category) == ParseOrEmpty(KVGet(store, CatIndexKey(category)))

GetCategories(store) == ParseOrEmpty(KVGet(store, CategoriesKey))

\* a variant without the check for an empty index
GetCategoryInfoAlways(store, category) ==
    LET slugs == GetCategorySlugs(store, category)
    IN  Some([name |-> category, postCount |-> Len(slugs), posts |-> slugs])

GetCategoryInfo(store, category) ==
    LET slugs == GetCategorySlugs(store, category)
    IN  IF Len(slugs) = 0 THEN Null
        ELSE Some([name |-> category, postCount |-> Len(slugs), posts |-> slugs])

\* a variant that collects the posts in reverse order
RECURSIVE PostsOfReversed(_, _, _, _)
PostsOfReversed(store, category, slugs, status) ==
    IF Len(slugs) = 0 THEN <<>>
    ELSE LET post == GetPost(store, category \o "/" \o Head(slugs), status)
         IN  PostsOfReversed(store, category, Tail(slugs), status)
                 \o (IF IsNull(post) THEN <<>> ELSE <<Val(post)>>)

\* the posts of the slugs of one category that getPost finds, in index order
RECURSIVE PostsOf(_, _, _, _)
PostsOf(store, category, slugs, status) ==
    IF Len(slugs) = 0 THEN <<>>
    ELSE LET post == GetPost(store, category \o "/" \o Head(slugs), status)
         IN  (IF IsNull(post) THEN <<>> ELSE <<Val(post)>>)
                 \o PostsOf(store, category, Tail(slugs), status)

\* a variant that takes the posts of every category of the Catalog
RECURSIVE PostsOfAllLanguages(_, _, _, _)
PostsOfAllLanguages(store, categories, status, language) ==
    IF Len(categories) = 0 THEN <<>>
    ELSE PostsOf(store, Head(categories), GetCategorySlugs(store, Head(categories)), status)
             \o PostsOfAllLanguages(store, Tail(categories), status, language)

\* the posts of every category of the language, in catalog order then index order
RECURSIVE PostsOfLanguage(_, _, _, _)
PostsOfLanguage(store, categories, status, language) ==
    IF Len(categories) = 0 THEN <<>>
    ELSE (IF StartsWith(Head(categories), language \o "/")
          THEN PostsOf(store, Head(categories), GetCategorySlugs(store, Head(categories)), status)
          ELSE <<>>)
             \o PostsOfLanguage(store, Tail(categories), status, language)

\* the filter of searchPosts; reading title of a metadata without one throws
SearchThrows(post) == ~HasField(post.metadata, "title")

SearchMatches(post, query) ==
    LET q == LowerCased(query)
    IN  \/ Includes(LowerCased(post.metadata.title), q)
        \/ Includes(LowerCased(post.content), q)
        \/ /\ HasField(post.metadata, "tags")
           /\ \E i \in 1..Len(post.metadata.tags) : Includes(LowerCased(post.metadata.tags[i]), q)

\* searchPosts: [threw, posts]
SearchPosts(store, query, status, language) ==
    LET all == PostsOfLanguage(store, GetCategories(store), status, language)
    IN  IF \E i \in 1..Len(all) : SearchThrows(all[i])
        THEN [threw |-> TRUE, posts |-> <<>>]
        ELSE [threw |-> FALSE, posts |-> SelectSeq(all, LAMBDA p : SearchMatches(p, query))]

(***************************************************************************)
(* getRecentPosts                                                          *)
(***************************************************************************)
Digits == "0123456789"
IsDigit(c) == \E i \in 1..10 : CharAt(Digits, i) = c
DigitVal(c) == (CHOOSE i \in 1..10 : CharAt(Digits, i) = c) - 1

RECURSIVE NumVal(_)
NumVal(s) == IF s = "" THEN 0 ELSE NumVal(SubSeq(s, 1, Len(s) - 1)) * 10 + DigitVal(CharAt(s, Len(s)))

\* new Date(d).getTime() for the date-only form YYYY-MM-DD, as a day number that
\* orders as the time stamp does; null stands for NaN (every other text)
ParseDate(d) ==
    IF /\ Len(d) = 10
       /\ \A i \in {1, 2, 3, 4, 6, 7, 9, 10} : IsDigit(CharAt(d, i))
       /\ CharAt(d, 5) = "-" /\ CharAt(d, 8) = "-"
       /\ NumVal(SubSeq(d, 6, 7)) \in 1..12
       /\ NumVal(SubSeq(d, 9, 10)) \in 1..31
    THEN Some(NumVal(SubSeq(d, 1, 4)) * 372 + NumVal(SubSeq(d, 6, 7)) * 31
                  + NumVal(SubSeq(d, 9, 10)))
    ELSE Null

\* the dates of the documents of the model, parsed once
Dates == {"2025-01-01", "2025-02-01", "2025-03-01"}
ParsedDates == {<<d, ParseDate(d)>> : d \in Dates}

\* new Date(metadata.date).getTime(); an undefined date gives NaN
DateTime(m) ==
    IF ~HasField(m, "date") THEN Null
    ELSE IF m.date \in Dates THEN (CHOOSE p \in ParsedDates : p[1] = m.date)[2]
    ELSE ParseDate(m.date)

\* a variant that orders by date ascending
RecentCompareAscending(a, b) ==
    LET ta == DateTime(a.metadata)
        tb == DateTime(b.metadata)
    IN  IF IsNull(ta) \/ IsNull(tb) THEN 0 ELSE Val(ta) - Val(tb)

\* the comparator (a, b) => time(b) - time(a); a NaN result counts as 0
RecentCompare(a, b) ==
    LET ta == DateTime(a.metadata)
        tb == DateTime(b.metadata)
    IN  IF IsNull(ta) \/ IsNull(tb) THEN 0 ELSE Val(tb) - Val(ta)

\* stable insertion of post x into a sorted sequence
RECURSIVE InsertSorted(_, _)
InsertSorted(sorted, x) ==
    IF Len(sorted) = 0 THEN <<x>>
    ELSE IF RecentCompare(Head(sorted), x) <= 0 THEN <<Head(sorted)>> \o InsertSorted(Tail(sorted), x)
    ELSE <<x>> \o sorted

RECURSIVE SortPosts(_)
SortPosts(posts) ==
    IF Len(posts) = 0 THEN <<>>
    ELSE InsertSorted(SortPosts(SubSeq(posts, 1, Len(posts) - 1)), posts[Len(posts)])

\* Array.prototype.slice(0, limit)
Slice0(arr, limit) ==
    LET end == IF limit < 0 THEN (IF Len(arr) + limit < 0 THEN 0 ELSE Len(arr) + limit)
               ELSE (IF limit > Len(arr) THEN Len(arr) ELSE limit)
    IN  SubSeq(arr, 1, end)

GetRecentPosts(store, limit, status, language) ==
    Slice0(SortPosts(PostsOfLanguage(store, GetCategories(store), status, language)), limit)

(***************************************************************************)
(* The read handlers of index.ts                                           *)
(***************************************************************************)
\* String.prototype.replace(pattern, '') with a string pattern: the first occurrence
RemoveFirst(s, pat) ==
    LET at == {i \in 0..(Len(s) - Len(pat)) : SubSeq(s, i + 1, i + Len(pat)) = pat}
    IN  IF at = {} THEN s
        ELSE LET i == CHOOSE a \in at : \A o \in at : a <= o
             IN  SubSeq(s, 1, i) \o SubSeq(s, i + Len(pat) + 1, Len(s))

\* GET /api/posts/:category
ListCategory(store, language, category, status) ==
    PostsOf(store, language \o "/" \o category,
            GetCategorySlugs(store, language \o "/" \o category), status)

\* GET /api/categories
RECURSIVE CategoryInfos(_, _, _)
CategoryInfos(store, categories, language) ==
    IF Len(categories) = 0 THEN <<>>
    ELSE LET category == Head(categories)
             info == GetCategoryInfo(store, category)
         IN  (IF StartsWith(category, language \o "/") /\ ~IsNull(info)
              THEN <<[Val(info) EXCEPT !.name = RemoveFirst(category, language \o "/")]>>
              ELSE <<>>)
                 \o CategoryInfos(store, Tail(categories), language)

ListCategories(store, language) == CategoryInfos(store, GetCategories(store), language)

\* url.searchParams.get('lang') || 'en'
LangOf(lang) == IF IsNull(lang) \/ Val(lang) = "" THEN "en" ELSE Val(lang)

\* statusParam === 'draft' ? 'draft' : 'published'
StatusOf(statusParam) == IF statusParam = Some("draft") THEN "draft" ELSE "published"

Found(data) == [status |-> 200, data |-> data]
NotFound(message) == [status |-> 404, error |-> message]

\* GET /api/posts/:category/:slug
ApiGetPost(store, category, slug, lang, statusParam) ==
    LET key == LangOf(lang) \o "/" \o category \o "/" \o slug
        post == GetPost(store, key, StatusOf(statusParam))
    IN  IF IsNull(post) THEN NotFound("Post not found") ELSE Found(Val(post))

\* GET /api/categories/:category
ApiCategoryInfo(store, category, lang) ==
    LET info == GetCategoryInfo(store, LangOf(lang) \o "/" \o category)
    IN  IF IsNull(info) THEN NotFound("Category not found")
        ELSE Found([Val(info) EXCEPT !.name = category])

\* GET /api/metadata/:category/:slug
ApiGetMetadata(store, category, slug, lang, statusParam) ==
    LET key == LangOf(lang) \o "/" \o category \o "/" \o slug
        metadata == GetPostMetadata(store, key, StatusOf(statusParam))
    IN  IF IsNull(metadata) THEN NotFound("Post metadata not found") ELSE Found(Val(metadata))

\* GET /posts/:category/:slug (legacy): the raw markdown
LegacyGetPost(store, category, slug, lang, statusParam) ==
    LET key == LangOf(lang) \o "/" \o category \o "/" \o slug
        content == GetMarkdown(store, key, StatusOf(statusParam))
    IN  IF IsNull(content) \/ Val(content) = "" THEN NotFound("Not found") ELSE Found(Val(content))

\* GET /posts/:category (legacy): the slugs of the category
LegacyCategorySlugs(store, category, lang) ==
    Found(GetCategorySlugs(store, LangOf(lang) \o "/" \o category))

\* GET /categories (legacy): the category names of the language
LegacyCategories(store, lang) ==
    LET language == LangOf(lang)
        mine == SelectSeq(GetCategories(store), LAMBDA cat : StartsWith(cat, language \o "/"))
    IN  Found([i \in 1..Len(mine) |-> RemoveFirst(mine[i], language \o "/")])

\* the store gets searchPosts issues in its loop over the slugs of one category, up to
\* the post whose missing title makes the filter throw
RECURSIVE SlugGets(_, _, _, _)
SlugGets(store, category, slugs, status) ==
    IF Len(slugs) = 0 THEN [gets |-> 0, threw |-> FALSE]
    ELSE LET key == category \o "/" \o Head(slugs)
             post == GetPost(store, key, status)
             here == IF Len(Split(key, "/")) < 3 THEN 0 ELSE 2
         IN  IF ~IsNull(post) /\ SearchThrows(Val(post))
             THEN [gets |-> here, threw |-> TRUE]
             ELSE LET rest == SlugGets(store, category, Tail(slugs), status)
                  IN  [gets |-> here + rest.gets, threw |-> rest.threw]

RECURSIVE CategoryGets(_, _, _, _)
CategoryGets(store, categories, status, language) ==
    IF Len(categories) = 0 THEN [gets |-> 0, threw |-> FALSE]
    ELSE IF ~StartsWith(Head(categories), language \o "/")
    THEN CategoryGets(store, Tail(categories), status, language)
    ELSE LET mine == SlugGets(store, Head(categories),
                              GetCategorySlugs(store, Head(categories)), status)
         IN  IF mine.threw THEN [gets |-> 1 + mine.gets, threw |-> TRUE]
             ELSE LET rest == CategoryGets(store, Tail(categories), status, language)
                  IN  [gets |-> 1 + mine.gets + rest.gets, threw |-> rest.threw]

\* the number of store gets of one searchPosts call
SearchGets(store, status, language) ==
    1 + CategoryGets(store, GetCategories(store), status, language).gets

\* a variant that searches without checking the query
ApiSearchNoCheck(store, query, lang, statusParam) ==
    LET q == IF IsNull(query) \/ Val(query) = "" THEN "api" ELSE Val(query)
    IN  [status |-> 200,
         data |-> PostsOfLanguage(store, GetCategories(store), StatusOf(statusParam), LangOf(lang)),
         gets |-> SearchGets(store, StatusOf(statusParam), LangOf(lang))]

\* GET /api/search, with the number of store gets issued; a throw of searchPosts is
\* answered by the catch of fetch
ApiSearch(store, query, lang, statusParam) ==
    IF IsNull(query) \/ Val(query) = ""
    THEN [status |-> 400, error |-> "Query parameter \"q\" is required", gets |-> 0]
    ELSE LET results == SearchPosts(store, Val(query), StatusOf(statusParam), LangOf(lang))
             gets == SearchGets(store, StatusOf(statusParam), LangOf(lang))
         IN  IF results.threw
             THEN [status |-> 500, error |-> "Internal server error", gets |-> gets]
             ELSE [status |-> 200, data |-> results.posts, gets |-> gets]

(***************************************************************************)
(* The inputs: sync request bodies                                         *)
(***************************************************************************)
MaxRequests == 3

MetaValid == [title |-> "Explicit", date |-> "2025-02-01", author |-> "Ana",
              status |-> "published", category |-> "news", tags |-> <<"API">>]
MetaNoTitle == [date |-> "2025-02-01", author |-> "Ana", status |-> "draft", category |-> "news"]

Keys == {"en/tech/a", "en/tech/b", "en/news/a", "bn/tech/a", "tech/a", "en/tech/a/x"}
Visibilities == {"draft", "published"}

Body(key, content, metadata, status) ==
    [key |-> key, content |-> content, metadata |-> metadata, status |-> status]

\* bodies whose front matter is valid
ExtractedBodies ==
    {Body(Some(k), Some(DocA), Null, Some(v)) : k \in Keys, v \in Visibilities}
        \cup {Body(Some(k), Some(DocB), Null, Some(v)) : k \in {"en/tech/a", "en/tech/b"}, v \in Visibilities}
        \cup {Body(Some("en/tech/a"), Some(DocA), Null, Null),
              Body(Some("en/tech/a"), Some(DocB), Null, Some("Published"))}
\* bodies that carry metadata of their own
ExplicitBodies ==
    {Body(Some("en/news/a"), Some(DocNoFrontmatter), Some(m), Some(v)) :
        m \in {MetaValid, MetaNoTitle}, v \in Visibilities}
        \cup {Body(Some("en/tech/a"), Some(DocNoFrontmatter), Some(MetaNoTitle), Some("published"))}
\* bodies whose front matter is missing or incomplete
InvalidBodies ==
    {Body(Some("en/tech/a"), Some(c), Null, Some("published")) : c \in InvalidContents}
        \cup {Body(Some("en/tech/b"), Some(DocNoTitle), Null, Null)}
\* bodies that lack the key or the content
MissingBodies ==
    {Body(Null, Some(DocA), Null, Some("published")), Body(Some(""), Some(DocA), Null, Null),
     Body(Some("en/tech/a"), Null, Null, Some("published")),
     Body(Some("en/tech/a"), Some(""), Some(MetaValid), Some("published"))}

SyncBodies == ExtractedBodies \cup ExplicitBodies \cup InvalidBodies \cup MissingBodies

(***************************************************************************)
(* handleSync                                                              *)
(***************************************************************************)
\* !body.key || !body.content
MissingKeyOrContent(body) ==
    \/ IsNull(body.key) \/ Val(body.key) = ""
    \/ IsNull(body.content) \/ Val(body.content) = ""

\* a variant that compares the status without regard to case
SyncStatusAnyCase(body) ==
    IF ~IsNull(body.status) /\ ToLowerCase(Val(body.status)) = "published"
    THEN "published" ELSE "draft"

\* body.status === 'published' ? 'published' : 'draft'
SyncStatus(body) == IF body.status = Some("published") THEN "published" ELSE "draft"

PayloadOf(body) == [key |-> Val(body.key), content |-> Val(body.content), metadata |-> body.metadata]

RespOk == [status |-> 200, message |-> "Content synced successfully"]
RespMissing == [status |-> 400, message |-> "Missing key or content"]
RespInvalid == [status |-> 400, message |-> "Invalid JSON payload"]

\* a getPost call that has not started
NewReader == [pc |-> "new", key |-> "", status |-> "", content |-> Null, post |-> Null]

\* the store and the response that handleSync ends with, run without interleaving
SyncResult(store, body) ==
    IF MissingKeyOrContent(body) THEN [store |-> store, resp |-> RespMissing]
    ELSE LET r == StoreMarkdown(store, PayloadOf(body), SyncStatus(body))
         IN  IF r.threw THEN [store |-> r.store, resp |-> RespInvalid]
             ELSE [store |-> r.store, resp |-> RespOk]

HandleSync(body) ==
    /\ nreq < MaxRequests
    /\ kv' = SyncResult(kv, body).store
    /\ resp' = Some(SyncResult(kv, body).resp)
    /\ last' = Some(body)
    /\ repeated' = (last = Some(body))
    /\ nreq' = nreq + 1
    /\ log' = IF SyncResult(kv, body).resp = RespOk /\ SyncStatus(body) = "published"
              THEN Append(log, Val(body.key)) ELSE log
    /\ UNCHANGED <<writers, overlap, reader>>

Init ==
    /\ kv = EmptyStore
    /\ last = Null
    /\ resp = Null
    /\ repeated = FALSE
    /\ nreq = 0
    /\ log = <<>>
    /\ writers = <<>>
    /\ overlap = FALSE
    /\ reader = NewReader

Next == \E body \in SyncBodies : HandleSync(body)

Spec == Init /\ [][Next]_vars

\* the step is the handling of a sync request with this body (every step of Spec is a
\* HandleSync step, and it records its body in last)
Handled(body) == last' = Some(body) /\ nreq' = nreq + 1

(***************************************************************************)
(* The interleaved specification: every store call of a sync request is a  *)
(* step of its own (each await of storeMarkdown), and requests interleave  *)
(***************************************************************************)
NumRequests == 2
Requests == 1..NumRequests

ConcBodies ==
    {Body(Some("en/tech/a"), Some(DocA), Null, Some("published")),
     Body(Some("en/tech/b"), Some(DocB), Null, Some("published")),
     Body(Some("en/news/a"), Some(DocA), Null, Some("published")),
     Body(Some("en/tech/a"), Some(DocB), Null, Null),
     Body(Some("en/tech/a"), Some(DocB), Null, Some("published")),
     Body(Some("en/tech/a/x"), Some(DocA), Null, Some("published")),
     Body(Some("en/tech/a"), Some(DocNoTitle), Null, Some("published")),
     Body(Some("en/tech/b"), Null, Null, Some("published")),
     Body(Null, Some(DocA), Null, Some("published")),
     Body(Some("en/tech/a"), Some(""), Some(MetaValid), Null)}

NewWriter ==
    [pc |-> "new", payload |-> Null, status |-> "", metadata |-> Null,
     catIndex |-> <<>>, categories |-> <<>>, resp |-> Null, failedAt |-> ""]

Running(w) == w.pc \notin {"new", "done"}

\* the language/category a running request will index, if any
Targets(w) ==
    IF Running(w) /\ ~SkipsIndex(Val(w.payload).key, w.status)
    THEN {FullCategoryKey(Val(w.payload).key)}
    ELSE {}

InitConc ==
    /\ kv = EmptyStore
    /\ last = Null
    /\ resp = Null
    /\ repeated = FALSE
    /\ nreq = 0
    /\ log = <<>>
    /\ writers = [r \in Requests |-> NewWriter]
    /\ overlap = FALSE
    /\ reader = NewReader

Finish(w, response) == [w EXCEPT !.pc = "done", !.resp = Some(response)]

\* handleSync up to the first await of storeMarkdown: the checks of the body and the
\* resolution of the metadata
Begin(r, body) ==
    /\ writers[r].pc = "new"
    /\ LET started == [writers[r] EXCEPT !.pc = "putContent",
                                         !.payload = Some(PayloadOf(body)),
                                         !.status = SyncStatus(body),
                                         !.metadata = ResolveMetadata(PayloadOf(body))]
       IN  IF MissingKeyOrContent(body)
           THEN /\ writers' = [writers EXCEPT ![r] = Finish(@, RespMissing)]
                /\ UNCHANGED overlap
           ELSE IF IsNull(ResolveMetadata(PayloadOf(body)))
           THEN /\ writers' = [writers EXCEPT ![r] = Finish(@, RespInvalid)]
                /\ UNCHANGED overlap
           ELSE /\ writers' = [writers EXCEPT ![r] = started]
                /\ overlap' = (overlap \/ \E o \in Requests \ {r} :
                                              Targets(writers[o]) \cap Targets(started) # {})
    /\ UNCHANGED <<kv, last, resp, repeated, nreq, log, reader>>

\* await put(storageKey, payload.content)
PutContent(r) ==
    /\ writers[r].pc = "putContent"
    /\ kv' = StoreContent(kv, Val(writers[r].payload), writers[r].status)
    /\ writers' = [writers EXCEPT ![r].pc = "putMetadata"]
    /\ UNCHANGED <<last, resp, repeated, nreq, log, overlap, reader>>

\* a variant that updates the indexes before the metadata is put
PutMetadataDeferred(r) ==
    /\ writers[r].pc = "putMetadata"
    /\ writers' = [writers EXCEPT ![r] =
                      IF SkipsIndex(Val(@.payload).key, @.status) THEN Finish(@, RespOk)
                      ELSE [@ EXCEPT !.pc = "getIndex"]]
    /\ UNCHANGED <<kv, last, resp, repeated, nreq, log, overlap, reader>>

\* await put(metadataKey, JSON.stringify(metadata)), and the early return
PutMetadata(r) ==
    /\ writers[r].pc = "putMetadata"
    /\ kv' = StoreMetadata(kv, Val(writers[r].payload), writers[r].status, Val(writers[r].metadata))
    /\ writers' = [writers EXCEPT ![r] =
                      IF SkipsIndex(Val(@.payload).key, @.status) THEN Finish(@, RespOk)
                      ELSE [@ EXCEPT !.pc = "getIndex"]]
    /\ UNCHANGED <<last, resp, repeated, nreq, log, overlap, reader>>

\* a variant that goes on to the Catalog without putting the Category Index
GetIndexWithoutPut(r) ==
    /\ writers[r].pc = "getIndex"
    /\ LET w == writers[r]
           catIndex == ParseOrEmpty(KVGet(kv, CatIndexKey(FullCategoryKey(Val(w.payload).key))))
       IN  writers' = [writers EXCEPT ![r] = [@ EXCEPT !.catIndex = catIndex, !.pc = "getCategories"]]
    /\ UNCHANGED <<kv, last, resp, repeated, nreq, log, overlap, reader>>

\* updateCategoryIndex: await get(catIndexKey)
GetIndex(r) ==
    /\ writers[r].pc = "getIndex"
    /\ LET w == writers[r]
           catIndex == ParseOrEmpty(KVGet(kv, CatIndexKey(FullCategoryKey(Val(w.payload).key))))
       IN  writers' = [writers EXCEPT ![r] =
                          [@ EXCEPT !.catIndex = catIndex,
                                    !.pc = IF ~ArrIncludes(catIndex, SlugOf(Val(w.payload).key))
                                           THEN "putIndex" ELSE "getCategories"]]
    /\ UNCHANGED <<kv, last, resp, repeated, nreq, log, overlap, reader>>

\* a variant that pushes onto the index as stored at the time of the put
PutIndexOntoStored(r) ==
    /\ writers[r].pc = "putIndex"
    /\ LET w == writers[r]
           indexKey == CatIndexKey(FullCategoryKey(Val(w.payload).key))
       IN  kv' = KVPut(kv, indexKey,
                       JSONstringifyArray(Push(ParseOrEmpty(KVGet(kv, indexKey)), SlugOf(Val(w.payload).key))))
    /\ writers' = [writers EXCEPT ![r].pc = "getCategories"]
    /\ UNCHANGED <<last, resp, repeated, nreq, log, overlap, reader>>

\* updateCategoryIndex: catIndex.push(slug); await put(catIndexKey, ...)
PutIndex(r) ==
    /\ writers[r].pc = "putIndex"
    /\ LET w == writers[r]
       IN  kv' = KVPut(kv, CatIndexKey(FullCategoryKey(Val(w.payload).key)),
                       JSONstringifyArray(Push(w.catIndex, SlugOf(Val(w.payload).key))))
    /\ writers' = [writers EXCEPT ![r].pc = "getCategories"]
    /\ UNCHANGED <<last, resp, repeated, nreq, log, overlap, reader>>

\* updateCategoriesList: await get('index:categories')
GetCategoriesList(r) ==
    /\ writers[r].pc = "getCategories"
    /\ LET w == writers[r]
           categories == ParseOrEmpty(KVGet(kv, CategoriesKey))
       IN  writers' = [writers EXCEPT ![r] =
                          IF ~ArrIncludes(categories, FullCategoryKey(Val(w.payload).key))
                          THEN [@ EXCEPT !.categories = categories, !.pc = "putCategories"]
                          ELSE Finish([@ EXCEPT !.categories = categories], RespOk)]
    /\ UNCHANGED <<kv, last, resp, repeated, nreq, log, overlap, reader>>

\* updateCategoriesList: categories.push(category); await put('index:categories', ...)
PutCategories(r) ==
    /\ writers[r].pc = "putCategories"
    /\ LET w == writers[r]
       IN  kv' = KVPut(kv, CategoriesKey,
                       JSONstringifyArray(Push(w.categories, FullCategoryKey(Val(w.payload).key))))
    /\ writers' = [writers EXCEPT ![r] = Finish(@, RespOk)]
    /\ UNCHANGED <<last, resp, repeated, nreq, log, overlap, reader>>

NextConc ==
    \E r \in Requests :
        \/ \E body \in ConcBodies : Begin(r, body)
        \/ PutContent(r)
        \/ PutMetadata(r)
        \/ GetIndex(r)
        \/ PutIndex(r)
        \/ GetCategoriesList(r)
        \/ PutCategories(r)

SpecConc == InitConc /\ [][NextConc]_vars

(***************************************************************************)
(* Store failures: any store call of a write may reject.  storeMarkdown    *)
(* catches nothing, so the rejection ends it and reaches the catch of      *)
(* handleSync.                                                             *)
(***************************************************************************)
StoreCalls == {"putContent", "putMetadata", "getIndex", "putIndex", "getCategories", "putCategories"}

\* a variant that removes the content and the metadata of the write when a call fails
StoreCallFailsWithRollback(r) ==
    /\ writers[r].pc \in StoreCalls
    /\ writers' = [writers EXCEPT ![r] = [Finish(@, RespInvalid) EXCEPT !.failedAt = writers[r].pc]]
    /\ kv' = [k \in DOMAIN kv \ {ContentKey(writers[r].status, Val(writers[r].payload).key),
                                  MetadataKey(writers[r].status, Val(writers[r].payload).key)}
                 |-> kv[k]]
    /\ UNCHANGED <<last, resp, repeated, nreq, log, overlap, reader>>

\* a variant that starts the write again after a failed store call
StoreCallFailsAndRetries(r) ==
    /\ writers[r].pc \in StoreCalls
    /\ writers' = [writers EXCEPT ![r].pc = "putContent"]
    /\ UNCHANGED <<kv, last, resp, repeated, nreq, log, overlap, reader>>

StoreCallFails(r) ==
    /\ writers[r].pc \in StoreCalls
    /\ writers' = [writers EXCEPT ![r] = [Finish(@, RespInvalid) EXCEPT !.failedAt = writers[r].pc]]
    /\ UNCHANGED <<kv, last, resp, repeated, nreq, log, overlap, reader>>

NextFail == NextConc \/ \E r \in Requests : StoreCallFails(r)

SpecFail == InitConc /\ [][NextFail]_vars

\* the pending store call of a request rejects or resolves
StoreAnswers(r) ==
    \/ StoreCallFails(r)
    \/ PutContent(r) \/ PutMetadata(r) \/ GetIndex(r) \/ PutIndex(r)
    \/ GetCategoriesList(r) \/ PutCategories(r)

\* every store call is one round trip: the store answers each pending call
SpecFair == SpecFail /\ \A r \in Requests : WF_vars(StoreAnswers(r))

(***************************************************************************)
(* A getPost call that runs while writes run: its two gets are two steps   *)
(***************************************************************************)
ReaderKey == "en/tech/a"

\* getPost up to its first await: const content = await getMarkdown(env, key, status)
ReadContent(status) ==
    /\ reader.pc = "new"
    /\ Len(Split(ReaderKey, "/")) >= 3
    /\ reader' = [reader EXCEPT !.pc = "getMetadata", !.key = ReaderKey, !.status = status,
                                !.content = GetMarkdown(kv, ReaderKey, status)]
    /\ UNCHANGED <<kv, last, resp, repeated, nreq, log, writers, overlap>>

\* a variant that reads content and metadata in one step
ReadBothAtOnce ==
    /\ reader.pc = "getMetadata"
    /\ reader' = [reader EXCEPT !.pc = "done",
                                !.content = GetMarkdown(kv, reader.key, reader.status),
                                !.post = GetPost(kv, reader.key, reader.status)]
    /\ UNCHANGED <<kv, last, resp, repeated, nreq, log, writers, overlap>>

\* const metadata = await getPostMetadata(env, key, status), and the return
ReadMetadata ==
    /\ reader.pc = "getMetadata"
    /\ LET metadata == GetPostMetadata(kv, reader.key, reader.status)
           pathParts == Split(reader.key, "/")
       IN  reader' = [reader EXCEPT
                         !.pc = "done",
                         !.post = IF IsNull(reader.content) \/ Val(reader.content) = "" \/ IsNull(metadata)
                                  THEN Null
                                  ELSE Some([slug |-> pathParts[Len(pathParts)],
                                             metadata |-> Val(metadata),
                                             content |-> Val(reader.content)])]
    /\ UNCHANGED <<kv, last, resp, repeated, nreq, log, writers, overlap>>

NextRead == NextConc \/ (\E status \in Visibilities : ReadContent(status)) \/ ReadMetadata

SpecRead == InitConc /\ [][NextRead]_vars

(***************************************************************************)
(* Interleaved and failing requests, followed by one sync request that     *)
(* runs from its first to its last store call while no other is running    *)
(***************************************************************************)
RepairBodies ==
    {Body(Some("en/tech/a"), Some(DocA), Null, Some("published")),
     Body(Some("en/tech/b"), Some(DocB), Null, Some("published")),
     Body(Some("en/news/a"), Some(DocA), Null, Some("published"))}

Quiescent == \A r \in Requests : ~Running(writers[r])

RunAlone(body) == Quiescent /\ nreq = 0 /\ HandleSync(body)

NextRepair == NextFail \/ \E body \in RepairBodies : RunAlone(body)

SpecRepair == InitConc /\ [][NextRepair]_vars

(***************************************************************************)
(* Sync requests whose documents carry dates that do and do not parse      *)
(***************************************************************************)
\* metadata given with the payload; new Date("soon") is an invalid date
MetaBadDate == [title |-> "Explicit", date |-> "soon", author |-> "Ana",
                status |-> "published", category |-> "tech"]

DateBodies ==
    {Body(Some("en/tech/a"), Some(DocNoFrontmatter), Some(MetaBadDate), Some("published")),
     Body(Some("en/tech/a"), Some(DocA), Null, Some("published")),
     Body(Some("en/tech/b"), Some(DocA), Null, Some("published")),
     Body(Some("en/news/a"), Some(DocB), Null, Some("published")),
     Body(Some("en/news/a"), Some(DocNoFrontmatter), Some(MetaBadDate), Some("draft"))}

NextDates == \E body \in DateBodies : HandleSync(body)

SpecDates == Init /\ [][NextDates]_vars

(***************************************************************************)
(* Sync requests whose front matter carries the status labels of the model *)
(***************************************************************************)
LabelBodies ==
    {Body(Some(k), Some(c), Null, Some("published")) :
        k \in {"en/tech/a", "en/tech/b"}, c \in LabelContents \cup ValidContents}
        \cup {Body(Some("en/tech/b"), Some(DocArchived), Null, Some("draft"))}

NextLabels == \E body \in LabelBodies : HandleSync(body)

SpecLabels == Init /\ [][NextLabels]_vars

(***************************************************************************)
(* Properties of the interleaved specification                             *)
(***************************************************************************)
CompletedOk(w) == w.pc = "done" /\ w.resp = Some(RespOk)

\* a completed published write under a three-segment key
Published3(w) ==
    /\ CompletedOk(w) /\ w.status = "published"
    /\ Len(Split(Val(w.payload).key, "/")) = 3

KeyOf(w) == Val(w.payload).key

DocumentStored(store, w) ==
    /\ ContentKey(w.status, KeyOf(w)) \in DOMAIN store
    /\ MetadataKey(w.status, KeyOf(w)) \in DOMAIN store

\* a write that has gone through updateCategoryIndex
PastIndexUpdate(w) ==
    /\ w.pc \in {"getCategories", "putCategories"} \/ CompletedOk(w)
    /\ ~SkipsIndex(KeyOf(w), w.status)

\* C6: when two published writes of different slugs into one language/category have
\* both completed, both documents are stored and the Category Index holds at least one
\* of the slugs; a slug is missing from it only through a stale read: the index is what
\* another write of that category put after reading a sequence without that slug
LostUpdateOnlyByStaleRead ==
    \A i \in Requests, j \in Requests :
        (/\ i # j /\ Published3(writers[i]) /\ Published3(writers[j])
         /\ FullCategoryKey(KeyOf(writers[i])) = FullCategoryKey(KeyOf(writers[j]))
         /\ SlugOf(KeyOf(writers[i])) # SlugOf(KeyOf(writers[j]))) =>
            LET index == GetCategorySlugs(kv, FullCategoryKey(KeyOf(writers[i])))
                slug == SlugOf(KeyOf(writers[i]))
            IN  /\ DocumentStored(kv, writers[i]) /\ DocumentStored(kv, writers[j])
                /\ ArrIncludes(index, slug) \/ ArrIncludes(index, SlugOf(KeyOf(writers[j])))
                /\ ~ArrIncludes(index, slug) =>
                       \E k \in Requests \ {i} :
                           /\ PastIndexUpdate(writers[k])
                           /\ FullCategoryKey(KeyOf(writers[k])) = FullCategoryKey(KeyOf(writers[i]))
                           /\ ~ArrIncludes(writers[k].catIndex, slug)
                           /\ index = Append(writers[k].catIndex, SlugOf(KeyOf(writers[k])))

\* both writes completed without error, both documents are stored, and the Category
\* Index holds only one of the two slugs
LostUpdateWitness ==
    /\ Published3(writers[1]) /\ KeyOf(writers[1]) = "en/tech/a"
    /\ Published3(writers[2]) /\ KeyOf(writers[2]) = "en/tech/b"
    /\ DocumentStored(kv, writers[1]) /\ DocumentStored(kv, writers[2])
    /\ GetCategorySlugs(kv, "en/tech") = <<"b">>

\* C7 (as claimed): when no two writes of one language/category ran at the same time
\* and every write has completed without error, every published three-segment write
\* has its slug in its Category Index and its language/category in the Catalog
SingleWriterPerCategorySuffices ==
    (~overlap /\ \A r \in Requests : CompletedOk(writers[r])) =>
        \A r \in Requests :
            Published3(writers[r]) =>
                /\ ArrIncludes(GetCategorySlugs(kv, FullCategoryKey(KeyOf(writers[r]))),
                               SlugOf(KeyOf(writers[r])))
                /\ ArrIncludes(GetCategories(kv), FullCategoryKey(KeyOf(writers[r])))

(***************************************************************************)
(* Properties of the sequential handler                                    *)
(***************************************************************************)
\* the arguments the queries are evaluated at
Languages == {"en", "bn"}
CategoryNames == {"tech", "news"}
Queries == {"api", "SECOND", "explicit", "zzz-no-match"}
Limits == {0, 1, 2, 10}

\* what the index queries answer at one visibility
ListingView(store, status) ==
    [l \in Languages, c \in CategoryNames |-> ListCategory(store, l, c, status)]
SearchView(store, status) ==
    [l \in Languages, q \in Queries |-> SearchPosts(store, q, status, l)]
RecentView(store, status) ==
    [l \in Languages, n \in Limits |-> GetRecentPosts(store, n, status, l)]
CatalogView(store) ==
    <<[l \in Languages |-> ListCategories(store, l)],
      [l \in Languages, c \in CategoryNames |-> GetCategoryInfo(store, l \o "/" \o c)]>>

\* the front matter of the valid documents, written out by hand
FrontMatterOf(content) ==
    IF content = DocA
    THEN [title |-> "API Test Post", date |-> "2025-03-01", author |-> "Dib",
          status |-> "published", category |-> "tech", tags |-> <<"api", "test">>]
    ELSE [title |-> "Second", date |-> "2025-01-01", author |-> "Dib",
          status |-> "draft", category |-> "tech"]

HasKeyAndContent(body) ==
    /\ ~IsNull(body.key) /\ Val(body.key) # ""
    /\ ~IsNull(body.content) /\ Val(body.content) # ""

Segments(body) == Len(Split(Val(body.key), "/"))

\* a document with valid metadata: its own, or else that of its front matter
ValidMetadataGiven(body) ==
    IF IsNull(body.metadata) THEN Val(body.content) \in ValidContents
    ELSE \A f \in RequiredFields : f \in DOMAIN Val(body.metadata) /\ Val(body.metadata)[f] # ""

WrittenMetadata(body) ==
    IF IsNull(body.metadata) THEN FrontMatterOf(Val(body.content)) ELSE Val(body.metadata)

ValidDocument(body) == HasKeyAndContent(body) /\ Segments(body) = 3 /\ ValidMetadataGiven(body)

\* C1: after a sync of a valid document under a three-segment key has completed,
\* getPost with the same key and visibility returns the content and the metadata that
\* were written, with the third key segment as slug
RoundTrip ==
    (~IsNull(last) /\ ValidDocument(Val(last))) =>
        /\ resp = Some(RespOk)
        /\ GetPost(kv, Val(Val(last).key), SyncStatus(Val(last))) =
               Some([slug |-> Split(Val(Val(last).key), "/")[3],
                     metadata |-> WrittenMetadata(Val(last)),
                     content |-> Val(Val(last).content)])

RoundTripWitness ==
    /\ last = Some(Body(Some("en/tech/b"), Some(DocB), Null, Some("draft")))
    /\ resp = Some(RespOk)
    /\ ~IsNull(GetPost(kv, "en/tech/b", "draft"))
    /\ Val(GetPost(kv, "en/tech/b", "draft")).metadata.title = "Second"

\* C2: a sync with visibility draft leaves the published answers of category listing,
\* the catalog (listCategories, getCategoryInfo), searchPosts and getRecentPosts unchanged
DraftWriteKeepsPublishedViews ==
    [][\A body \in SyncBodies :
          (Handled(body) /\ SyncStatus(body) = "draft") =>
              /\ ListingView(kv', "published") = ListingView(kv, "published")
              /\ CatalogView(kv') = CatalogView(kv)
              /\ SearchView(kv', "published") = SearchView(kv, "published")
              /\ RecentView(kv', "published") = RecentView(kv, "published")]_vars

DraftWriteWitness ==
    /\ last = Some(Body(Some("en/tech/a"), Some(DocB), Null, Some("draft")))
    /\ resp = Some(RespOk)
    /\ "draft:en/tech/a" \in DOMAIN kv
    /\ Len(ListCategory(kv, "en", "tech", "published")) = 2

\* C3 (as claimed): a sync with visibility published leaves the draft answers of
\* category listing, searchPosts and getRecentPosts unchanged
PublishedWriteKeepsDraftViews ==
    [][\A body \in SyncBodies :
          (Handled(body) /\ SyncStatus(body) = "published") =>
              /\ ListingView(kv', "draft") = ListingView(kv, "draft")
              /\ SearchView(kv', "draft") = SearchView(kv, "draft")
              /\ RecentView(kv', "draft") = RecentView(kv, "draft")]_vars

Count(arr, x) == Cardinality({i \in 1..Len(arr) : arr[i] = x})

\* C4: a published sync of a three-segment document that repeats the sync before it
\* leaves the whole store as it was, with the slug once in the Category Index and the
\* language/category once in the Catalog
RepeatedPublishIsNoOp ==
    [][\A body \in SyncBodies :
          (/\ Handled(body)
           /\ last = Some(body) /\ resp = Some(RespOk)
           /\ SyncStatus(body) = "published" /\ Segments(body) = 3) =>
              /\ kv' = kv
              /\ Count(GetCategorySlugs(kv', FullCategoryKey(Val(body.key))), SlugOf(Val(body.key))) = 1
              /\ Count(GetCategories(kv'), FullCategoryKey(Val(body.key))) = 1]_vars

RepeatedPublishWitness ==
    /\ repeated /\ resp = Some(RespOk)
    /\ last = Some(Body(Some("en/tech/a"), Some(DocA), Null, Some("published")))
    /\ GetCategorySlugs(kv, "en/tech") = <<"a">>
    /\ GetCategories(kv) = <<"en/tech">>

IsPrefix(a, b) == Len(a) <= Len(b) /\ SubSeq(b, 1, Len(a)) = a

IndexKeys(store) == {k \in DOMAIN store : StartsWith(k, "index:")}

\* C5: a sync run to completion removes no index key and no entry: every Category
\* Index and the Catalog before it is a prefix of its value after it
AppendOnly ==
    [][\A k \in IndexKeys(kv) :
          k \in DOMAIN kv' /\ IsPrefix(JSONparse(kv[k]), JSONparse(kv'[k]))]_vars

AppendOnlyWitness ==
    /\ last = Some(Body(Some("en/news/a"), Some(DocA), Null, Some("published")))
    /\ GetCategorySlugs(kv, "en/tech") = <<"b", "a">>
    /\ GetCategories(kv) = <<"en/tech", "en/news">>

\* C8: a sync without metadata of its own whose content has no front matter, or whose
\* front matter lacks a non-empty title, date, author or category, ends in an error
\* and puts nothing: the store is unchanged
ValidationGate ==
    [][\A body \in SyncBodies :
          (/\ Handled(body)
           /\ HasKeyAndContent(body) /\ IsNull(body.metadata)
           /\ Val(body.content) \in InvalidContents) =>
              /\ kv' = kv
              /\ resp' = Some(RespInvalid)]_vars

ValidationGateWitness ==
    /\ last = Some(Body(Some("en/tech/a"), Some(DocEmptyAuthor), Null, Some("published")))
    /\ resp = Some(RespInvalid)
    /\ "published:en/tech/b" \in DOMAIN kv
    /\ "published:en/tech/a" \notin DOMAIN kv
    /\ GetCategorySlugs(kv, "en/tech") = <<"b">>

MetadataKeys(store) == {k \in DOMAIN store : StartsWith(k, "metadata:")}

\* C9 (as claimed): every stored metadata record has a non-empty title, date, author
\* and category
StoredMetadataValid ==
    \A k \in MetadataKeys(kv) : ~MissingRequired(JSONparse(kv[k]))

\* C10: a sync with visibility draft that succeeds writes exactly the keys draft:{key}
\* and metadata:draft:{key}; every index:*, published:* and metadata:published:* key is
\* as it was
DraftWriteTouchesDraftKeysOnly ==
    [][\A body \in SyncBodies :
          (Handled(body) /\ SyncStatus(body) = "draft" /\ resp' = Some(RespOk)) =>
              LET own == {"draft:" \o Val(body.key), "metadata:draft:" \o Val(body.key)}
              IN  /\ DOMAIN kv' = DOMAIN kv \cup own
                  /\ \A k \in DOMAIN kv \ own : kv'[k] = kv[k]
                  /\ \A k \in own : ~StartsWith(k, "index:") /\ ~StartsWith(k, "published:")
                                        /\ ~StartsWith(k, "metadata:published:")
                  /\ kv'["draft:" \o Val(body.key)] = Val(body.content)]_vars

DraftKeysWitness ==
    /\ last = Some(Body(Some("en/tech/a/x"), Some(DocA), Null, Some("draft")))
    /\ resp = Some(RespOk)
    /\ DOMAIN kv = {"draft:en/tech/a/x", "metadata:draft:en/tech/a/x",
                    "published:en/tech/a", "metadata:published:en/tech/a",
                    "index:en/tech", "index:categories"}

\* the Category Indexes and the Catalog: the part of the store under index:
IndexPart(store) == [k \in IndexKeys(store) |-> store[k]]

\* C11 (as claimed): a published sync whose key has fewer or more than three segments
\* stores content and metadata and leaves every Category Index and the Catalog as
\* they were
NonThreeSegmentWriteSkipsIndex ==
    [][\A body \in SyncBodies :
          (/\ Handled(body) /\ HasKeyAndContent(body)
           /\ SyncStatus(body) = "published" /\ Segments(body) # 3
           /\ resp' = Some(RespOk)) =>
              /\ ContentKey("published", Val(body.key)) \in DOMAIN kv'
              /\ MetadataKey("published", Val(body.key)) \in DOMAIN kv'
              /\ IndexPart(kv') = IndexPart(kv)]_vars

\* a sync of a valid document that was answered 200
Synced(body) == ~IsNull(last) /\ Val(last) = body /\ resp = Some(RespOk)

\* C12 (as claimed): after a successful sync under a key with fewer than three
\* segments, getPost with that key and visibility returns the document
ShortKeyPointLookup ==
    (/\ ~IsNull(last) /\ resp = Some(RespOk) /\ HasKeyAndContent(Val(last))
     /\ Segments(Val(last)) < 3) =>
        LET post == GetPost(kv, Val(Val(last).key), SyncStatus(Val(last)))
        IN  /\ ~IsNull(post)
            /\ Val(post).content = Val(Val(last).content)

\* C13 (as claimed): after a successful published sync of a valid document under the
\* two-segment key tech/a, the point lookup, the metadata lookup and the raw-markdown
\* lookup of category tech, slug a with the default language answer 200 with it
TwoSegmentKeyPointLookups ==
    Synced(Body(Some("tech/a"), Some(DocA), Null, Some("published"))) =>
        LET post == ApiGetPost(kv, "tech", "a", Null, Null)
        IN  /\ post.status = 200
            /\ post.data.slug = "a"
            /\ post.data.metadata.title = "API Test Post"
            /\ post.data.metadata.author = "Dib"
            /\ post.data.content = DocA
            /\ ApiGetMetadata(kv, "tech", "a", Null, Null).status = 200
            /\ LegacyGetPost(kv, "tech", "a", Null, Null) = Found(DocA)

\* C14 (as claimed): after a successful published sync of a valid document under the
\* two-segment key tech/a, the default-language slug listing of tech contains a, the
\* post listing of tech is not empty, the category list contains tech and the category
\* info of tech has a positive postCount
TwoSegmentKeyIndexQueries ==
    Synced(Body(Some("tech/a"), Some(DocA), Null, Some("published"))) =>
        /\ ArrIncludes(LegacyCategorySlugs(kv, "tech", Null).data, "a")
        /\ Len(ListCategory(kv, LangOf(Null), "tech", StatusOf(Null))) > 0
        /\ ArrIncludes(LegacyCategories(kv, Null).data, "tech")
        /\ \E i \in 1..Len(ListCategories(kv, LangOf(Null))) :
               ListCategories(kv, LangOf(Null))[i].name = "tech"
        /\ ApiCategoryInfo(kv, "tech", Null).status = 200
        /\ ApiCategoryInfo(kv, "tech", Null).data.postCount > 0

\* the distinct elements of a sequence, in order of first occurrence
RECURSIVE DistinctInOrder(_)
DistinctInOrder(seq) ==
    IF Len(seq) = 0 THEN <<>>
    ELSE LET front == DistinctInOrder(SubSeq(seq, 1, Len(seq) - 1))
         IN  IF ArrIncludes(front, seq[Len(seq)]) THEN front ELSE Append(front, seq[Len(seq)])

\* the keys of the log that have exactly three segments
ThreeSegmentKeys(keys) == SelectSeq(keys, LAMBDA k : Len(Split(k, "/")) = 3)

\* the slugs published under three-segment keys of one language/category, and the
\* language/category pairs published under three-segment keys, in order of first publish
PublishedSlugs(keys, category) ==
    LET mine == SelectSeq(ThreeSegmentKeys(keys), LAMBDA k : FullCategoryKey(k) = category)
    IN  DistinctInOrder([i \in 1..Len(mine) |-> SlugOf(mine[i])])
PublishedCategories(keys) ==
    LET three == ThreeSegmentKeys(keys)
    IN  DistinctInOrder([i \in 1..Len(three) |-> FullCategoryKey(three[i])])

\* C15 (as claimed): after any sequence of syncs each run to completion, every Category
\* Index is the sequence of distinct slugs published under three-segment keys of its
\* language/category in order of first publish, the Catalog is the sequence of distinct
\* language/category pairs in order of first publish, and an index key is absent
\* exactly when nothing was published there
SequentialIndexContent ==
    /\ \A l \in Languages, c \in CategoryNames :
           LET category == l \o "/" \o c
           IN  /\ GetCategorySlugs(kv, category) = PublishedSlugs(log, category)
               /\ CatIndexKey(category) \in DOMAIN kv <=> PublishedSlugs(log, category) # <<>>
    /\ GetCategories(kv) = PublishedCategories(log)
    /\ CategoriesKey \in DOMAIN kv <=> PublishedCategories(log) # <<>>
    /\ IndexKeys(kv) \subseteq
           {CategoriesKey} \cup {CatIndexKey(l \o "/" \o c) : l \in Languages, c \in CategoryNames}

\* the keys getPost is asked for: those of the model and one that is never written
LookupKeys == Keys \cup {"xx/nocat/noslug"}

\* C16 (as claimed): getPost(key, V) answers not found exactly when V:{key} or
\* metadata:V:{key} is absent, and otherwise the stored content with the stored metadata
PointLookupNotFoundExactly ==
    \A key \in LookupKeys, status \in Visibilities :
        LET post == GetPost(kv, key, status)
            absent == \/ ContentKey(status, key) \notin DOMAIN kv
                      \/ MetadataKey(status, key) \notin DOMAIN kv
        IN  /\ IsNull(post) <=> absent
            /\ ~absent => /\ Val(post).content = kv[ContentKey(status, key)]
                          /\ Val(post).metadata = JSONparse(kv[MetadataKey(status, key)])
                          /\ Val(post).slug = Split(key, "/")[Len(Split(key, "/"))]

\* the store with the Category Index of the category replaced by the empty sequence
WithEmptyIndex(store, category) == KVPut(store, CatIndexKey(category), JSONstringifyArray(<<>>))

\* C17: getCategoryInfo answers not found exactly when the Category Index is absent or
\* empty; otherwise postCount is the length of the index and posts is the index, so
\* postCount = Len(posts) > 0, whether or not the listed documents exist
CategoryInfoFromIndex ==
    \A l \in Languages, c \in CategoryNames :
        LET category == l \o "/" \o c
            info == GetCategoryInfo(kv, category)
            absent == CatIndexKey(category) \notin DOMAIN kv
            empty == ~absent /\ JSONparse(kv[CatIndexKey(category)]) = <<>>
        IN  /\ IsNull(info) <=> (absent \/ empty)
            /\ ~IsNull(info) =>
                   /\ Val(info).posts = JSONparse(kv[CatIndexKey(category)])
                   /\ Val(info).postCount = Len(Val(info).posts)
                   /\ Val(info).postCount > 0
                   /\ Val(info).name = category
            /\ IsNull(GetCategoryInfo(WithEmptyIndex(kv, category), category))

\* a category whose index lists a slug that no document is stored under, and a
\* category without index
CategoryInfoWitness ==
    /\ GetCategoryInfo(kv, "en/tech") = Some([name |-> "en/tech", postCount |-> 1, posts |-> <<"a">>])
    /\ IsNull(GetPost(kv, "en/tech/a", "published")) /\ IsNull(GetPost(kv, "en/tech/a", "draft"))
    /\ IsNull(GetCategoryInfo(kv, "en/news"))

\* the Documents of the slugs whose point lookup succeeds, in the order of the slugs
FoundDocuments(store, category, slugs, status) ==
    LET found == SelectSeq(slugs, LAMBDA slug : ~IsNull(GetPost(store, category \o "/" \o slug, status)))
    IN  [i \in 1..Len(found) |-> Val(GetPost(store, category \o "/" \o found[i], status))]

\* C18: the category listing is, in Category Index order, exactly the Documents of the
\* index slugs whose point lookup at the visibility succeeds; the other slugs are skipped
ListingFollowsIndex ==
    \A l \in Languages, c \in CategoryNames, status \in Visibilities :
        LET slugs == GetCategorySlugs(kv, l \o "/" \o c)
            listing == ListCategory(kv, l, c, status)
        IN  /\ listing = FoundDocuments(kv, l \o "/" \o c, slugs, status)
            /\ \A i \in 1..Len(listing) : ArrIncludes(slugs, listing[i].slug)
            /\ Len(listing) <= Len(slugs)

\* the index lists b before a; both are found published, only a is found as draft
ListingWitness ==
    /\ GetCategorySlugs(kv, "en/tech") = <<"b", "a">>
    /\ Len(ListCategory(kv, "en", "tech", "published")) = 2
    /\ ListCategory(kv, "en", "tech", "published")[1].slug = "b"
    /\ ListCategory(kv, "en", "tech", "published")[2].slug = "a"
    /\ Len(ListCategory(kv, "en", "tech", "draft")) = 1
    /\ ListCategory(kv, "en", "tech", "draft")[1].slug = "a"

\* the concatenation of a sequence of sequences
RECURSIVE Concat(_)
Concat(seqs) == IF Len(seqs) = 0 THEN <<>> ELSE Head(seqs) \o Concat(Tail(seqs))

\* the Documents reachable through the Catalog entries of the language and their
\* Category Index slugs at the visibility, in Catalog order then index order
Reachable(store, status, language) ==
    LET mine == SelectSeq(GetCategories(store), LAMBDA cat : StartsWith(cat, language \o "/"))
    IN  Concat([i \in 1..Len(mine) |->
                   FoundDocuments(store, mine[i], GetCategorySlugs(store, mine[i]), status)])

\* the lowercased title, the lowercased content or some lowercased tag contains the
\* lowercased query
QueryMatches(post, query) ==
    \/ Includes(ToLowerCase(post.metadata.title), ToLowerCase(query))
    \/ Includes(LowerCased(post.content), ToLowerCase(query))
    \/ /\ "tags" \in DOMAIN post.metadata
       /\ \E i \in 1..Len(post.metadata.tags) :
              Includes(ToLowerCase(post.metadata.tags[i]), ToLowerCase(query))

\* C19 (as claimed): searchPosts returns exactly the reachable Documents of the language
\* at the visibility that match the query, in Catalog order then index order
SearchReturnsMatches ==
    \A l \in Languages, q \in Queries, status \in Visibilities :
        LET result == SearchPosts(kv, q, status, l)
        IN  /\ ~result.threw
            /\ result.posts = SelectSeq(Reachable(kv, status, l), LAMBDA p : QueryMatches(p, q))

\* the parsed date of a Document
DateOf(post) == Val(DateTime(post.metadata))

Min(a, b) == IF a <= b THEN a ELSE b

Slugs == {"a", "b", "x"}
DefaultView(store) ==
    <<[c \in CategoryNames, slug \in Slugs |-> ApiGetPost(store, c, slug, Null, Null)],
      [c \in CategoryNames |-> ListCategory(store, LangOf(Null), c, StatusOf(Null))],
      [q \in Queries |-> SearchPosts(store, q, StatusOf(Null), LangOf(Null))],
      [n \in Limits |-> GetRecentPosts(store, n, StatusOf(Null), LangOf(Null))]>>

\* C21: a sync whose status is absent or anything other than 'published' writes the
\* draft slot only, and the point lookup, listing, search and recent of the default
\* visibility answer after it what they answered before it
NonPublishedStatusIsDraft ==
    [][\A body \in SyncBodies :
          (Handled(body) /\ HasKeyAndContent(body) /\ body.status # Some("published")) =>
              /\ \A k \in DOMAIN kv' :
                     (k \notin DOMAIN kv \/ kv'[k] # kv[k]) =>
                         k \in {"draft:" \o Val(body.key), "metadata:draft:" \o Val(body.key)}
              /\ DefaultView(kv') = DefaultView(kv)]_vars

\* a sync with status 'Published' went to the draft slot; the published document of
\* the same key is still the one the default point lookup answers
NonPublishedStatusWitness ==
    /\ last = Some(Body(Some("en/tech/a"), Some(DocB), Null, Some("Published")))
    /\ resp = Some(RespOk)
    /\ kv["draft:en/tech/a"] = DocB
    /\ ApiGetPost(kv, "tech", "a", Null, Null) =
           Found([slug |-> "a", metadata |-> FrontMatterOf(DocA), content |-> DocA])

\* the identities language/category/slug of the model
Identities == {k \in Keys : Len(Split(k, "/")) = 3}

\* a document that was written as draft and never as published
DraftOnly(key) ==
    /\ ContentKey("draft", key) \in DOMAIN kv
    /\ \A i \in 1..Len(log) : log[i] # key

\* the draft Documents of the identities of the language that were also published
PublishedIdentityDrafts(language) ==
    {Val(GetPost(kv, k, "draft")) :
        k \in {i \in Identities : /\ StartsWith(i, language \o "/") /\ ~DraftOnly(i)
                                   /\ ~IsNull(GetPost(kv, i, "draft"))}}

\* C30 (as claimed): a document written only as draft is returned by getPost with
\* visibility draft, and by no category listing, search or recent with visibility draft
DraftOnlyInvisible ==
    /\ \A key \in Identities :
           DraftOnly(key) =>
               LET listing == ListCategory(kv, Split(key, "/")[1], Split(key, "/")[2], "draft")
               IN  /\ ~IsNull(GetPost(kv, key, "draft"))
                   /\ \A i \in 1..Len(listing) : listing[i].slug # SlugOf(key)
    /\ \A l \in Languages :
           /\ \A q \in Queries :
                  LET posts == SearchPosts(kv, q, "draft", l).posts
                  IN  \A i \in 1..Len(posts) : posts[i] \in PublishedIdentityDrafts(l)
           /\ LET posts == GetRecentPosts(kv, 10, "draft", l)
              IN  \A i \in 1..Len(posts) : posts[i] \in PublishedIdentityDrafts(l)

(***************************************************************************)
(* Properties of writes with failing store calls                           *)
(***************************************************************************)
\* the position of a store call in the order content put, metadata put, index get,
\* index put, catalog get, catalog put
CallOrder ==
    "putContent" :> 1 @@ "putMetadata" :> 2 @@ "getIndex" :> 3 @@ "putIndex" :> 4
        @@ "getCategories" :> 5 @@ "putCategories" :> 6

Failed(w) == w.failedAt # ""

\* C23: when a store call of a write fails, the write ends with an error at that call,
\* the store is left as it was (the content and metadata it put stay), and the write
\* issues no later store call
NoRollbackOnFailure ==
    [][\A r \in Requests :
          /\ (Failed(writers'[r]) /\ ~Failed(writers[r])) =>
                 /\ writers[r].pc \in StoreCalls /\ writers'[r].failedAt = writers[r].pc
                 /\ writers'[r].pc = "done"
                 /\ ~IsNull(writers'[r].resp) /\ Val(writers'[r].resp).status >= 400
                 /\ kv' = kv
                 /\ CallOrder[writers[r].pc] > 1 =>
                        ContentKey(writers[r].status, KeyOf(writers[r])) \in DOMAIN kv'
                 /\ CallOrder[writers[r].pc] > 2 =>
                        MetadataKey(writers[r].status, KeyOf(writers[r])) \in DOMAIN kv'
          /\ writers[r].pc = "done" => writers'[r] = writers[r]]_vars

\* the index put of a write failed: its content and metadata are stored, the index
\* was never written
NoRollbackWitness ==
    /\ writers[1].failedAt = "putIndex" /\ writers[1].pc = "done"
    /\ KeyOf(writers[1]) = "en/tech/b"
    /\ kv["published:en/tech/b"] = DocB
    /\ "metadata:published:en/tech/b" \in DOMAIN kv
    /\ "index:en/tech" \notin DOMAIN kv

\* C24 (as claimed): a write that ended because a store call failed is answered with
\* a server error, different from the answers to an invalid payload or invalid content
StoreFailureIsServerError ==
    \A r \in Requests :
        Failed(writers[r]) =>
            /\ Val(writers[r].resp).status >= 500
            /\ Val(writers[r].resp) \notin {RespMissing, RespInvalid}

(***************************************************************************)
(* Properties of a point lookup that runs while writes run                 *)
(***************************************************************************)
\* the writes of the key and visibility the reader asks for that have put their content
\* (their metadata)
PutTheContent(w) == w.pc \in {"putMetadata", "getIndex", "putIndex", "getCategories", "putCategories"} \/ CompletedOk(w)
PutTheMetadata(w) == w.pc \in {"getIndex", "putIndex", "getCategories", "putCategories"} \/ CompletedOk(w)
WritesReaderSlot(w) == ~IsNull(w.payload) /\ KeyOf(w) = reader.key /\ w.status = reader.status

\* C25: getPost reads the content key and then the metadata key in two store gets: the
\* Document it returns holds the content found by the first get and the metadata
\* found by the second, each put by some write of that key and visibility, and these
\* may be two different writes
TornReadParts ==
    [][/\ (reader.pc = "new" /\ reader'.pc = "getMetadata") =>
              reader'.content = KVGet(kv, ContentKey(reader'.status, reader'.key))
       /\ (reader.pc = "getMetadata" /\ reader'.pc = "done") =>
              IF IsNull(reader.content) \/ MetadataKey(reader.status, reader.key) \notin DOMAIN kv
              THEN IsNull(reader'.post)
              ELSE /\ Val(reader'.post).content = Val(reader.content)
                   /\ Val(reader'.post).metadata = JSONparse(kv[MetadataKey(reader.status, reader.key)])
                   /\ \E r \in Requests :
                          /\ WritesReaderSlot(writers[r]) /\ PutTheContent(writers[r])
                          /\ Val(writers[r].payload).content = Val(reader'.post).content
                   /\ \E r \in Requests :
                          /\ WritesReaderSlot(writers[r]) /\ PutTheMetadata(writers[r])
                          /\ Val(writers[r].metadata) = Val(reader'.post).metadata]_vars

\* the Document returned has the content of one write and the metadata of the other
TornReadWitness ==
    /\ reader.pc = "done" /\ reader.status = "published" /\ ~IsNull(reader.post)
    /\ Val(reader.post).content = DocB
    /\ Val(reader.post).metadata = FrontMatterOf(DocA)

(***************************************************************************)
(* Invariants of the indexes under interleaving and failure                *)
(***************************************************************************)
DuplicateFree(arr) == \A i, j \in 1..Len(arr) : arr[i] = arr[j] => i = j

\* C27: under every interleaving of the writers' store calls, every Category Index and
\* the Catalog are sequences without duplicates
NoDuplicatesUnderInterleaving ==
    \A k \in IndexKeys(kv) : DuplicateFree(JSONparse(kv[k]))

\* two writers publish the same slug at once: both read the index before either put it
SameSlugAtOnceWitness ==
    \E r, o \in Requests :
        /\ r # o
        /\ writers[r].pc = "getCategories" /\ writers[o].pc = "getCategories"
        /\ KeyOf(writers[r]) = KeyOf(writers[o])
        /\ writers[r].catIndex = <<>> /\ writers[o].catIndex = <<>>

\* every write begun so far has a key of exactly three segments
OnlyThreeSegmentWrites ==
    \A r \in Requests :
        ~IsNull(writers[r].payload) => Len(Split(KeyOf(writers[r]), "/")) = 3

\* C28: when every written key has exactly three segments, in every state, between
\* the store calls of interleaved writes and after a failed store call, each slug S in
\* the Category Index of L/C has published:L/C/S and metadata:published:L/C/S in
\* the store
IndexNeverAheadOfDocument ==
    OnlyThreeSegmentWrites =>
        \A k \in IndexKeys(kv) \ {CategoriesKey} :
            LET category == SubSeq(k, Len("index:") + 1, Len(k))
                slugs == JSONparse(kv[k])
            IN  \A i \in 1..Len(slugs) :
                    /\ ContentKey("published", Join(<<category, slugs[i]>>, "/")) \in DOMAIN kv
                    /\ MetadataKey("published", Join(<<category, slugs[i]>>, "/")) \in DOMAIN kv

\* a write has put its slug in the Category Index and then failed at the Catalog, while
\* another write is between its content put and its metadata put
IndexNeverAheadWitness ==
    /\ OnlyThreeSegmentWrites
    /\ \E r, o \in Requests :
           /\ Failed(writers[r]) /\ writers[r].failedAt \in {"getCategories", "putCategories"}
           /\ CatIndexKey(FullCategoryKey(KeyOf(writers[r]))) \in DOMAIN kv
           /\ writers[o].pc = "putMetadata"

\* C29: in every state, under any interleaving and after any failed store call, each
\* entry of the Catalog has a Category Index that is present and not empty; so the
\* category list of a language has one entry per Catalog entry of that language, and
\* the legacy category list names the same categories
CatalogNeverDangling ==
    LET categories == GetCategories(kv)
    IN  /\ \A i \in 1..Len(categories) :
               /\ CatIndexKey(categories[i]) \in DOMAIN kv
               /\ Len(GetCategorySlugs(kv, categories[i])) > 0
        /\ \A l \in Languages :
               LET infos == ListCategories(kv, l)
                   mine == SelectSeq(categories, LAMBDA cat : StartsWith(cat, l \o "/"))
                   legacy == LegacyCategories(kv, Some(l)).data
               IN  /\ Len(infos) = Len(mine)
                   /\ \A i \in 1..Len(mine) : l \o "/" \o infos[i].name = mine[i]
                   /\ legacy = [i \in 1..Len(infos) |-> infos[i].name]

\* the Catalog has an entry, and a write that has put its Category Index failed
\* before its category reached the Catalog
CatalogNeverDanglingWitness ==
    /\ Len(ListCategories(kv, "en")) > 0
    /\ \E r \in Requests :
           /\ Failed(writers[r]) /\ writers[r].failedAt \in {"getCategories", "putCategories"}
           /\ CatIndexKey(FullCategoryKey(KeyOf(writers[r]))) \in DOMAIN kv
           /\ ~ArrIncludes(GetCategories(kv), FullCategoryKey(KeyOf(writers[r])))

\* C26: in every state in which no write is in progress and none has failed, the
\* content and the metadata stored for each key and visibility were put by the same
\* write, also when several writes of that key and visibility were interleaved
InconsistencyOnlyTransient ==
    (\A r \in Requests : ~Running(writers[r]) /\ ~Failed(writers[r])) =>
        \A r \in Requests :
            CompletedOk(writers[r]) =>
                \E o \in Requests :
                    /\ CompletedOk(writers[o])
                    /\ KeyOf(writers[o]) = KeyOf(writers[r])
                    /\ writers[o].status = writers[r].status
                    /\ KVGet(kv, ContentKey(writers[o].status, KeyOf(writers[o])))
                           = Some(Val(writers[o].payload).content)
                    /\ KVGet(kv, MetadataKey(writers[o].status, KeyOf(writers[o])))
                           = Some(JSONstringify(Val(writers[o].metadata)))

(***************************************************************************)
(* Rejection before any store access                                       *)
(***************************************************************************)
NoQuery == {Null, Some("")}
LangParams == {Null, Some("en"), Some("bn")}
StatusParams == {Null, Some("draft"), Some("published")}

\* C22: a search without a query string is answered 400 with no store get issued,
\* and a sync whose key or content is missing or empty is answered 400 in its first
\* step, before any store get or put, leaving the store as it was
EarlyRejection ==
    /\ [](\A query \in NoQuery, lang \in LangParams, statusParam \in StatusParams :
              LET answer == ApiSearch(kv, query, lang, statusParam)
              IN  answer.status = 400 /\ answer.gets = 0)
    /\ [][\A r \in Requests :
              /\ \A body \in ConcBodies :
                     (Begin(r, body) /\ ~HasKeyAndContent(body)) =>
                         /\ writers'[r].pc = "done"
                         /\ writers'[r].resp = Some(RespMissing)
                         /\ kv' = kv
              /\ (writers'[r].resp = Some(RespMissing) /\ writers[r].resp # Some(RespMissing)) =>
                     writers[r].pc = "new" /\ kv' = kv]_vars

\* a sync without content has been rejected while the store holds documents that a
\* search with a query reads
EarlyRejectionWitness ==
    /\ \E r \in Requests : writers[r].resp = Some(RespMissing)
    /\ ApiSearch(kv, Some("api"), Null, Null).gets > 1
    /\ ApiSearch(kv, Null, Null, Null).status = 400

(***************************************************************************)
(* Repair by a later sync                                                  *)
(***************************************************************************)
\* C31: from every store state that interleaved and failing writes can leave, a
\* published sync of a valid document under a three-segment key L/C/S that runs alone
\* to completion is answered 200 and ends in a state where getPost returns the
\* document written, S is in the Category Index of L/C and L/C is in the Catalog
RepairByResync ==
    [][\A body \in RepairBodies :
          (Handled(body) /\ Quiescent) =>
              LET key == Val(body.key)
              IN  /\ resp' = Some(RespOk)
                  /\ GetPost(kv', key, "published") =
                         Some([slug |-> Split(key, "/")[3],
                               metadata |-> WrittenMetadata(body),
                               content |-> Val(body.content)])
                  /\ ArrIncludes(GetCategorySlugs(kv', FullCategoryKey(key)), SlugOf(key))
                  /\ ArrIncludes(GetCategories(kv'), FullCategoryKey(key))]_vars

\* two interleaved writes both read the empty Category Index, so the slug a was lost;
\* the sync of en/tech/a that ran alone afterwards has put it back
RepairWitness ==
    /\ nreq = 1
    /\ last = Some(Body(Some("en/tech/a"), Some(DocA), Null, Some("published")))
    /\ \E r, o \in Requests :
           /\ CompletedOk(writers[r]) /\ CompletedOk(writers[o])
           /\ writers[r].status = "published" /\ writers[o].status = "published"
           /\ KeyOf(writers[r]) = "en/tech/a" /\ KeyOf(writers[o]) = "en/tech/b"
           /\ writers[r].catIndex = <<>> /\ writers[o].catIndex = <<>>
    /\ GetCategorySlugs(kv, "en/tech") = <<"b", "a">>

(***************************************************************************)
(* Documents whose date does not parse                                     *)
(***************************************************************************)
Unparseable(post) == IsNull(DateTime(post.metadata))

\* C32: getRecentPosts orders a Document whose date does not parse after every
\* Document whose date parses, so with a limit smaller than the number of Documents
\* with a parseable date it returns none whose date does not parse
UnparseableDatesRankLowest ==
    \A l \in Languages, status \in Visibilities :
        LET all == Reachable(kv, status, l)
            parseable == Cardinality({j \in 1..Len(all) : ~Unparseable(all[j])})
        IN  \A n \in Limits :
                LET recent == GetRecentPosts(kv, n, status, l)
                IN  /\ \A i \in 1..Len(recent), j \in 1..Len(recent) :
                           (i < j /\ Unparseable(recent[i])) => Unparseable(recent[j])
                    /\ n < parseable => \A i \in 1..Len(recent) : ~Unparseable(recent[i])

(***************************************************************************)
(* The status label of extracted metadata                                  *)
(***************************************************************************)
\* the value of the status line of each document, written out by hand
StatusLine(content) ==
    IF content = DocA THEN Some("published")
    ELSE IF content = DocB THEN Some("Draft")
    ELSE IF content = DocArchived THEN Some("Archived")
    ELSE IF content = DocUpperCase THEN Some("PUBLISHED")
    ELSE Null

\* C33: the metadata extracted from front matter has status published when the
\* lower-cased value of the status line is exactly published and status draft for
\* every other value, so the status of every extracted record is draft or published
StatusLabelNormalised ==
    (~IsNull(last) /\ resp = Some(RespOk) /\ IsNull(Val(last).metadata)) =>
        LET stored == GetPostMetadata(kv, Val(Val(last).key), SyncStatus(Val(last)))
            line == StatusLine(Val(Val(last).content))
        IN  /\ ~IsNull(stored)
            /\ HasField(Val(stored), "status")
            /\ Val(stored).status \in {"draft", "published"}
            /\ Val(stored).status = "published" <=>
                   (~IsNull(line) /\ ToLowerCase(Val(line)) = "published")

(***************************************************************************)
(* The status label and the visibility of a write                          *)
(***************************************************************************)
Labels == {"draft", "published", "archived"}

\* C34: the slot a sync writes and whether it updates the indexes follow from the
\* visibility of the request, not from the status label of the metadata: a draft sync
\* leaves the indexes as they were, a published sync under a three-segment key enters
\* slug and category, and the same sync with any other label writes the same store
\* but for the metadata value
LabelDoesNotDecide ==
    [][\A body \in SyncBodies :
          (Handled(body) /\ HasKeyAndContent(body) /\ resp' = Some(RespOk)) =>
              LET key == Val(body.key)
                  visibility == SyncStatus(body)
                  payload == PayloadOf(body)
                  metadata == Val(ResolveMetadata(payload))
                  own == {ContentKey(visibility, key), MetadataKey(visibility, key)}
              IN  /\ own \subseteq DOMAIN kv'
                  /\ kv'[ContentKey(visibility, key)] = Val(body.content)
                  /\ (DOMAIN kv' \ DOMAIN kv) \subseteq own \cup IndexKeys(kv')
                  /\ \A k \in DOMAIN kv \ (own \cup IndexKeys(kv)) : kv'[k] = kv[k]
                  /\ visibility = "draft" => IndexPart(kv') = IndexPart(kv)
                  /\ (visibility = "published" /\ Segments(body) = 3) =>
                         /\ ArrIncludes(GetCategorySlugs(kv', FullCategoryKey(key)), SlugOf(key))
                         /\ ArrIncludes(GetCategories(kv'), FullCategoryKey(key))
                  /\ \A label \in Labels :
                         LET relabelled == [payload EXCEPT
                                               !.metadata = Some(SetField(metadata, "status", label))]
                             other == StoreMarkdown(kv, relabelled, visibility).store
                         IN  /\ DOMAIN other = DOMAIN kv'
                             /\ \A k \in DOMAIN kv' \ {MetadataKey(visibility, key)} :
                                    other[k] = kv'[k]]_vars

\* a document labelled published is stored as a draft and not indexed, and a document
\* labelled draft has been published and entered in the Category Index and the Catalog
LabelWitness ==
    /\ GetMarkdown(kv, "en/news/a", "draft") = Some(DocA)
    /\ Val(GetPostMetadata(kv, "en/news/a", "draft")).status = "published"
    /\ IsNull(GetMarkdown(kv, "en/news/a", "published"))
    /\ ~ArrIncludes(GetCategories(kv), "en/news")
    /\ last = Some(Body(Some("en/tech/b"), Some(DocB), Null, Some("published")))
    /\ resp = Some(RespOk)
    /\ Val(GetPostMetadata(kv, "en/tech/b", "published")).status = "draft"
    /\ GetCategorySlugs(kv, "en/tech") = <<"b">>
    /\ GetCategories(kv) = <<"en/tech">>

(***************************************************************************)
(* The two slots of a key                                                  *)
(***************************************************************************)
\* what the point lookups answer for a key at a visibility
PointLookups(store, key, status) ==
    <<GetPost(store, key, status), GetPostMetadata(store, key, status),
      GetMarkdown(store, key, status)>>

\* C35: a sync with visibility V for a key leaves the answers of getPost, of the
\* metadata lookup and of the content lookup unchanged for that key at the other
\* visibility and for every other key at both; publishing a key leaves its draft slot
\* as it was
IndependentSlots ==
    [][\A body \in SyncBodies :
          Handled(body) =>
              \A key \in Keys, status \in Visibilities :
                  (body.key # Some(key) \/ SyncStatus(body) # status) =>
                      PointLookups(kv', key, status) = PointLookups(kv, key, status)]_vars

\* a key that has a draft has been published with another document: the draft slot
\* still answers with the draft
IndependentSlotsWitness ==
    /\ last = Some(Body(Some("en/tech/a"), Some(DocB), Null, Some("published")))
    /\ resp = Some(RespOk)
    /\ PointLookups(kv, "en/tech/a", "published") =
           <<Some([slug |-> "a", metadata |-> FrontMatterOf(DocB), content |-> DocB]),
             Some(FrontMatterOf(DocB)), Some(DocB)>>
    /\ PointLookups(kv, "en/tech/a", "draft") =
           <<Some([slug |-> "a", metadata |-> FrontMatterOf(DocA), content |-> DocA]),
             Some(FrontMatterOf(DocA)), Some(DocA)>>

(***************************************************************************)
(* The language of a query                                                 *)
(***************************************************************************)
\* the languages asked for: those of the model and a proper prefix of one
ScopeLanguages == Languages \cup {"b"}

\* the keys of the model with their first segment, and those of a language
KeyLanguage == {<<k, Split(k, "/")[1]>> : k \in Keys}
LanguageKeys(language) == {p[1] : p \in {q \in KeyLanguage : q[2] = language}}

\* the content and the metadata of the Document are those stored under the key at
\* the visibility
StoredUnder(store, status, key, post) ==
    /\ KVGet(store, ContentKey(status, key)) = Some(post.content)
    /\ MetadataKey(status, key) \in DOMAIN store
    /\ JSONparse(store[MetadataKey(status, key)]) = post.metadata

\* C36: every Document that searchPosts or getRecentPosts returns for a language is
\* stored under a key whose first segment is that language, and there are no more
\* of them than such keys; listCategories returns only categories whose Catalog
\* entry has that language as its first segment
LanguageScoping ==
    [](\A l \in ScopeLanguages :
          /\ \A status \in Visibilities :
                 LET mine == LanguageKeys(l)
                     answers == {SearchPosts(kv, "api", status, l).posts,
                                 GetRecentPosts(kv, 10, status, l)}
                 IN  \A posts \in answers :
                         /\ \A i \in 1..Len(posts) :
                                \E key \in mine : StoredUnder(kv, status, key, posts[i])
                         /\ Len(posts) <= Cardinality({key \in mine :
                                                          ContentKey(status, key) \in DOMAIN kv})
          /\ LET infos == ListCategories(kv, l)
             IN  \A i \in 1..Len(infos) :
                     /\ ArrIncludes(GetCategories(kv), l \o "/" \o infos[i].name)
                     /\ Len(Split(infos[i].name, "/")) = 1)

\* the Catalog holds a category of each language, with a published Document in each
\* that matches the query; each search returns only that of its language
LanguageScopingWitness ==
    /\ Len(GetCategories(kv)) = 2
    /\ Len(ListCategories(kv, "bn")) = 1 /\ Len(ListCategories(kv, "en")) = 1
    /\ Len(SearchPosts(kv, "api", "published", "bn").posts) = 1
    /\ Len(SearchPosts(kv, "api", "published", "en").posts) = 1
    /\ Len(GetRecentPosts(kv, 10, "published", "en")) = 1
    /\ ListCategories(kv, "b") = <<>>

(***************************************************************************)
(* Termination of a write                                                  *)
(***************************************************************************)
\* the position of the store call a request is at; 7 when it has ended
Position(w) == IF w.pc = "done" THEN 7 ELSE IF w.pc = "new" THEN 0 ELSE CallOrder[w.pc]

\* C37: a write issues its store calls in the order content put, metadata put, index
\* get, index put, catalog get, catalog put, each at most once, and when the store
\* answers every call, every write that has started ends with a response, 200 or an
\* error
WriteTerminates ==
    /\ [][\A r \in Requests :
              writers'[r] # writers[r] =>
                  /\ Position(writers'[r]) > Position(writers[r])
                  /\ writers'[r].pc = "done" =>
                         /\ ~IsNull(writers'[r].resp)
                         /\ Val(writers'[r].resp).status \in {200, 400}]_vars
    /\ \A r \in Requests : (writers[r].pc # "new") ~> (writers[r].pc = "done")

\* one write has ended after its six store calls, another after a failed store call
WriteTerminatesWitness ==
    \E r, o \in Requests :
        /\ CompletedOk(writers[r]) /\ writers[r].status = "published"
        /\ writers[r].catIndex = <<>> /\ writers[r].categories = <<>>
        /\ GetCategories(kv) = <<FullCategoryKey(KeyOf(writers[r]))>>
        /\ writers[o].pc = "done" /\ Failed(writers[o])
====
